---------------------------- MODULE Spec2Model ----------------------------
(***************************************************************************)
(* Model of the ModESP manifest processor (tools/process_manifests.py) and *)
(* its consistency validator (tools/manifest_validator.py).                *)
(*                                                                         *)
(* Strings that the code compares, sorts, joins or transforms are modelled *)
(* as sequences of ASCII codes, so that sorted(), str.upper(),             *)
(* str.replace() and ", ".join() are computed as Python computes them.     *)
(* Python dicts are modelled as sequences of [k, v] entries in insertion   *)
(* order, which is the order Python iterates them in.                      *)
(***************************************************************************)
EXTENDS Integers, Sequences, FiniteSets, TLC

VARIABLES
    schemas,        \* the schema documents present in tools/manifest_schemas
    files,          \* module manifests on disk: path index -> manifest content
    driver_files,   \* driver manifests on disk: path index -> manifest content
    manifest_files, \* ManifestProcessor.manifest_files: paths in discovery order
    pc,             \* position of the run
    parsed,         \* number of entries of manifest_files already parsed
    modules,        \* ManifestProcessor.modules
    drivers,        \* ManifestProcessor.drivers
    all_events,     \* ManifestProcessor.all_events (dict event -> [module names])
    issues,         \* issue list returned to validate_manifest_consistency
    report,         \* build/manifest_validation_report.md on disk
    out,            \* generated artifacts on disk
    exit_code,      \* exit status of the process (-1 while running)
    clock,          \* wall clock, in seconds, read by datetime.now()
    runs,           \* number of invocations of the program so far
    prev_out,       \* the artifacts as the previous invocation left them
    validator,      \* a ManifestValidator object used on its own
    v_input,        \* the list last passed to validator.validate_all
    v_result,       \* what that call returned
    v_calls         \* number of validate_all calls on that object

vars == <<schemas, files, driver_files, manifest_files, pc, parsed, modules, drivers,
          all_events, issues, report, out, exit_code, clock, runs, prev_out,
          validator, v_input, v_result, v_calls>>

\* what is on disk before the program runs
disk_vars == <<schemas, files, driver_files>>

proc_vars == <<schemas, files, driver_files, manifest_files, pc, parsed, modules, drivers,
               all_events, issues, report, out, exit_code, clock, runs, prev_out>>

val_vars == <<validator, v_input, v_result, v_calls>>

---------------------------------------------------------------------------
(* Strings as sequences of ASCII codes *)

ESPhal == <<69,83,80,104,97,108>>
SharedState == <<83,104,97,114,101,100,83,116,97,116,101>>
EventBus == <<69,118,101,110,116,66,117,115>>
ConfigManager == <<67,111,110,102,105,103,77,97,110,97,103,101,114>>
HAL == <<72,65,76>>
SharedStateStore == <<83,104,97,114,101,100,83,116,97,116,101,83,116,111,114,101>>
Ghost == <<71,104,111,115,116>>
NameA == <<65>>
NameB == <<66>>
Key_a_dot_b == <<97,46,98>>
Key_a_us_b == <<97,95,98>>
Key_t_dot_e == <<116,46,101>>
Key_a_quote_b == <<97,34,98>>
NameD == <<68>>
Method_get == <<103,101,116>>
CommaSpace == <<44,32>>

\* ", ".join(list)
RECURSIVE Join(_)
Join(list) ==
    IF Len(list) = 0 THEN <<>>
    ELSE IF Len(list) = 1 THEN list[1]
    ELSE list[1] \o CommaSpace \o Join(Tail(list))

\* Python's str comparison: lexicographic on code points
RECURSIVE StrLess(_, _)
StrLess(s, t) ==
    IF Len(t) = 0 THEN FALSE
    ELSE IF Len(s) = 0 THEN TRUE
    ELSE IF s[1] < t[1] THEN TRUE
    ELSE IF s[1] > t[1] THEN FALSE
    ELSE StrLess(Tail(s), Tail(t))

\* str.upper() on ASCII
Upper(s) == [i \in 1..Len(s) |-> IF s[i] >= 97 /\ s[i] <= 122 THEN s[i] - 32 ELSE s[i]]

\* str.replace('.', '_')
ReplaceDots(s) == [i \in 1..Len(s) |-> IF s[i] = 46 THEN 95 ELSE s[i]]

\* sorted(keys): insertion sort of a sequence of distinct strings
RECURSIVE InsertSorted(_, _)
InsertSorted(s, x) ==
    IF Len(s) = 0 THEN <<x>>
    ELSE IF StrLess(x, s[1]) THEN <<x>> \o s
    ELSE <<s[1]>> \o InsertSorted(Tail(s), x)

RECURSIVE Sorted(_)
Sorted(s) == IF Len(s) = 0 THEN <<>> ELSE InsertSorted(Sorted(Tail(s)), s[1])

Range(s) == {s[i] : i \in 1..Len(s)}

---------------------------------------------------------------------------
(* Python dict with insertion order: a sequence of [k, v] entries *)

DictHas(d, k) == \E i \in 1..Len(d) : d[i].k = k

DictGet(d, k) == d[CHOOSE i \in 1..Len(d) : d[i].k = k].v

DictKeys(d) == [i \in 1..Len(d) |-> d[i].k]

\* if k not in d: d[k] = []; d[k].append(x)
DictAppendTo(d, k, x) ==
    IF DictHas(d, k)
    THEN [i \in 1..Len(d) |-> IF d[i].k = k THEN [k |-> k, v |-> Append(d[i].v, x)] ELSE d[i]]
    ELSE Append(d, [k |-> k, v |-> <<x>>])

\* for k in keys: DictAppendTo(d, k, x)
RECURSIVE DictAppendAll(_, _, _)
DictAppendAll(d, keys, x) ==
    IF Len(keys) = 0 THEN d
    ELSE DictAppendAll(DictAppendTo(d, keys[1], x), Tail(keys), x)

\* d[k] = v
DictSet(d, k, v) ==
    IF DictHas(d, k)
    THEN [i \in 1..Len(d) |-> IF d[i].k = k THEN [k |-> k, v |-> v] ELSE d[i]]
    ELSE Append(d, [k |-> k, v |-> v])

\* d.get(field, default), and the test "field in d", on a dict with string keys
Get(d, field, default) == IF field \in DOMAIN d THEN d[field] ELSE default

---------------------------------------------------------------------------
(* ManifestValidator *)

NewValidator ==
    [issues |-> <<>>,
     event_publishers |-> <<>>, event_subscribers |-> <<>>,
     state_publishers |-> <<>>, state_subscribers |-> <<>>,
     api_providers |-> <<>>]

ValidationIssue(severity, category, message, source_module, target) ==
    [severity |-> severity, category |-> category, message |-> message,
     source_module |-> source_module, target |-> target]

\* the keys of manifest[section][part], or none when either is missing
SectionKeys(manifest, section, part) == Get(Get(manifest, section, <<>>), part, <<>>)

\* for api in apis: method = api.get('method', ''); if method:
\* api_providers[method] = module_name
RECURSIVE RegisterApis(_, _, _)
RegisterApis(providers, apis, module_name) ==
    IF Len(apis) = 0 THEN providers
    ELSE LET method == Get(apis[1], "method", <<>>)
         IN RegisterApis(IF Len(method) > 0 THEN DictSet(providers, method, module_name)
                                            ELSE providers,
                         Tail(apis), module_name)

CollectManifestData(v, module_name, manifest) ==
    [v EXCEPT
        !.event_publishers =
            DictAppendAll(@, SectionKeys(manifest, "event_bus", "publishes"), module_name),
        !.event_subscribers =
            DictAppendAll(@, SectionKeys(manifest, "event_bus", "subscribes"), module_name),
        !.state_publishers =
            DictAppendAll(@, SectionKeys(manifest, "shared_state", "publishes"), module_name),
        !.state_subscribers =
            DictAppendAll(@, SectionKeys(manifest, "shared_state", "subscribes"), module_name),
        !.api_providers =
            RegisterApis(RegisterApis(@, SectionKeys(manifest, "apis", "static"), module_name),
                         SectionKeys(manifest, "apis", "dynamic"), module_name)]

\* key not in other or not other[key]
Absent(other, key) == ~DictHas(other, key) \/ Len(DictGet(other, key)) = 0

\* for key, names in d.items(): if <key is flagged>: issues.append(ValidationIssue(...,
\* source_module=", ".join(names), target=key))
IssuesFrom(d, flagged, severity, category, message) ==
    LET hit == SelectSeq(d, LAMBDA entry : entry.k \in flagged)
    IN [i \in 1..Len(hit) |->
          ValidationIssue(severity, category, message, Join(hit[i].v), hit[i].k)]

\* validate_events with the multiple-publisher test taken as len(publishers) > 0
ValidateEvents_AnyPublisher(v) ==
    LET pubs == v.event_publishers
        subs == v.event_subscribers
        orphan == IssuesFrom(pubs, {e \in Range(DictKeys(pubs)) : Absent(subs, e)},
                     "WARNING", "EVENT", "is published but has no subscribers")
        missing == IssuesFrom(subs, {e \in Range(DictKeys(subs)) : Absent(pubs, e)},
                     "ERROR", "EVENT", "has subscribers but no publisher")
        multi == IssuesFrom(pubs, {e \in Range(DictKeys(pubs)) : Len(DictGet(pubs, e)) > 0},
                     "INFO", "EVENT", "is published by multiple modules")
    IN [v EXCEPT !.issues = @ \o orphan \o missing \o multi]

ValidateEvents(v) ==
    LET pubs == v.event_publishers
        subs == v.event_subscribers
        orphan == IssuesFrom(pubs, {e \in Range(DictKeys(pubs)) : Absent(subs, e)},
                     "WARNING", "EVENT", "is published but has no subscribers")
        missing == IssuesFrom(subs, {e \in Range(DictKeys(subs)) : Absent(pubs, e)},
                     "ERROR", "EVENT", "has subscribers but no publisher")
        multi == IssuesFrom(pubs, {e \in Range(DictKeys(pubs)) : Len(DictGet(pubs, e)) > 1},
                     "INFO", "EVENT", "is published by multiple modules")
    IN [v EXCEPT !.issues = @ \o orphan \o missing \o multi]

ValidateSharedState(v) ==
    LET pubs == v.state_publishers
        subs == v.state_subscribers
        orphan == IssuesFrom(pubs, {k \in Range(DictKeys(pubs)) : Absent(subs, k)},
                     "WARNING", "STATE", "is written but never read")
        missing == IssuesFrom(subs, {k \in Range(DictKeys(subs)) : Absent(pubs, k)},
                     "ERROR", "STATE", "is read but never written")
        multi == IssuesFrom(pubs, {k \in Range(DictKeys(pubs)) : Len(DictGet(pubs, k)) > 1},
                     "WARNING", "STATE", "is written by multiple modules - potential conflict")
    IN [v EXCEPT !.issues = @ \o orphan \o missing \o multi]

\* the list as resolve_dependencies has it, without ConfigManager
SystemDependencies_NoConfigManager == {ESPhal, SharedState, EventBus}

\* the system dependencies validate_dependencies skips
SystemDependencies == {ESPhal, SharedState, EventBus, ConfigManager}

ModuleNames(mods) == {mods[i].module.name : i \in 1..Len(mods)}

\* the issues of one module's dependency list, in list order
RECURSIVE DependencyIssues(_, _, _)
DependencyIssues(module_name, deps, module_names) ==
    IF Len(deps) = 0 THEN <<>>
    ELSE (IF deps[1] \in SystemDependencies THEN <<>>
          ELSE IF deps[1] \notin module_names
               THEN <<ValidationIssue("ERROR", "DEPENDENCY",
                         "depends on non-existent module", module_name, deps[1])>>
               ELSE <<>>)
         \o DependencyIssues(module_name, Tail(deps), module_names)

RECURSIVE AllDependencyIssues(_, _)
AllDependencyIssues(mods, module_names) ==
    IF Len(mods) = 0 THEN <<>>
    ELSE DependencyIssues(mods[1].module.name, Get(mods[1].module, "dependencies", <<>>),
                          module_names)
         \o AllDependencyIssues(Tail(mods), module_names)

ValidateDependencies(v, mods) ==
    [v EXCEPT !.issues = @ \o AllDependencyIssues(mods, ModuleNames(mods))]

RECURSIVE CollectAll(_, _)
CollectAll(v, mods) ==
    IF Len(mods) = 0 THEN v
    ELSE CollectAll(CollectManifestData(v, mods[1].module.name, mods[1]), Tail(mods))

\* severity_order.get(severity, 999)
SeverityRank(sev) ==
    CASE sev = "ERROR" -> 0 [] sev = "WARNING" -> 1 [] sev = "INFO" -> 2 [] OTHER -> 999

\* a sort on the same key that is not stable: issues of one rank come out in the
\* reverse of the order they went in
SortBySeverity_Unstable(iss) ==
    LET Of(r) == SelectSeq(iss, LAMBDA i : SeverityRank(i.severity) = r)
        Rev(q) == [i \in 1..Len(q) |-> q[Len(q) + 1 - i]]
    IN Rev(Of(0)) \o Rev(Of(1)) \o Rev(Of(2)) \o Rev(Of(999))

\* list.sort(key=rank): a stable sort on a key with these ranks
SortBySeverity(iss) ==
    LET Of(r) == SelectSeq(iss, LAMBDA i : SeverityRank(i.severity) = r)
    IN Of(0) \o Of(1) \o Of(2) \o Of(999)

HasErrors(iss) == \E i \in 1..Len(iss) : iss[i].severity = "ERROR"

\* returns the validator after the call and the pair (not has_errors, issues)
ValidateAll(v, mods) ==
    LET v0 == [v EXCEPT !.issues = <<>>]
        v1 == CollectAll(v0, mods)
        v2 == ValidateEvents(v1)
        v3 == ValidateSharedState(v2)
        v4 == ValidateDependencies(v3, mods)
        v5 == [v4 EXCEPT !.issues = SortBySeverity(@)]
    IN [validator |-> v5, is_valid |-> ~HasErrors(v5.issues), issues |-> v5.issues]

\* generate_validation_report: the summary the report carries
GenerateValidationReport(v) ==
    IF Len(v.issues) = 0
    THEN [text |-> "No issues found", issues |-> <<>>]
    ELSE [text |-> "Manifest Validation Report", issues |-> v.issues]

---------------------------------------------------------------------------
(* Bounds *)

MaxModules == 2
MaxCalls == 2

---------------------------------------------------------------------------
(* A ManifestValidator used on its own: validate_all called on lists of    *)
(* manifest dicts.                                                         *)

NoResult == [is_valid |-> TRUE, issues |-> <<>>]

\* a file that has not been written
NoFile == [exists |-> FALSE]

ManifestDict(name, deps, ev_pub, ev_sub, st_pub, st_sub) ==
    [module |-> [name |-> name, dependencies |-> deps],
     event_bus |-> [publishes |-> ev_pub, subscribes |-> ev_sub],
     shared_state |-> [publishes |-> st_pub, subscribes |-> st_sub]]

\* a manifest that declares static APIs and nothing else
ApiManifest(name, static) ==
    [module |-> [name |-> name, dependencies |-> <<>>],
     apis |-> [static |-> static]]

ValNames == {NameA, NameB}

ValDepNames == {NameB, Ghost, ESPhal, SharedState, EventBus, ConfigManager, HAL, SharedStateStore}

ValDepLists == {<<>>, <<Ghost, EventBus>>} \cup {<<d>> : d \in ValDepNames}

ValEventLists == {<<>>, <<Key_a_dot_b>>}

ValStateLists == {<<>>, <<Key_t_dot_e>>}

\* manifests that declare dependencies, manifests that declare events and state keys,
\* and manifests that declare an API method
ValManifests ==
    {ApiManifest(n, <<[method |-> Method_get]>>) : n \in ValNames}
    \cup {ManifestDict(NameA, d, <<>>, <<>>, <<>>, <<>>) : d \in ValDepLists}
    \cup {ManifestDict(n, <<>>, ep, es, sp, ss) :
            n \in ValNames, ep \in ValEventLists, es \in ValEventLists,
            sp \in ValStateLists, ss \in ValStateLists}

ValInputs == UNION {[1..n -> ValManifests] : n \in 0..MaxModules}

ProcIdle ==
    /\ schemas = {}
    /\ files = <<>>
    /\ driver_files = <<>>
    /\ manifest_files = <<>>
    /\ pc = "lib"
    /\ parsed = 0
    /\ modules = <<>>
    /\ drivers = <<>>
    /\ all_events = <<>>
    /\ issues = <<>>
    /\ report = NoFile
    /\ out = NoFile
    /\ exit_code = -1
    /\ clock = 0
    /\ runs = 0
    /\ prev_out = NoFile

InitValidator ==
    /\ ProcIdle
    /\ validator = NewValidator
    /\ v_input = <<>>
    /\ v_result = NoResult
    /\ v_calls = 0

\* validator.validate_all(mods); a later call on the same object passes the same list
CallValidateAll ==
    /\ pc = "lib"
    /\ v_calls < MaxCalls
    /\ \E mods \in (IF v_calls = 0 THEN ValInputs ELSE {v_input}) :
         \E r \in {ValidateAll(validator, mods)} :
            /\ validator' = r.validator
            /\ v_result' = [is_valid |-> r.is_valid, issues |-> r.issues]
            /\ v_input' = mods
    /\ v_calls' = v_calls + 1
    /\ UNCHANGED proc_vars

NextValidator == CallValidateAll

SpecValidator == InitValidator /\ [][NextValidator]_vars

---------------------------------------------------------------------------
(* ManifestProcessor *)

MaxFiles == 2
MaxRuns == 2

\* the schema documents __init__ loads from tools/manifest_schemas
ModuleSchemaFile == "module-manifest.schema.json"
DriverSchemaFile == "driver-manifest.schema.json"

\* a manifest file that is not valid JSON
BadJson == [json_ok |-> FALSE]

ManifestFile(name, deps, ev_pub, ev_sub, st_pub, st_sub) ==
    [json_ok |-> TRUE,
     module |-> [name |-> name, dependencies |-> deps],
     event_bus |-> [publishes |-> ev_pub, subscribes |-> ev_sub],
     shared_state |-> [publishes |-> st_pub, subscribes |-> st_sub]]

\* the same manifest with a "configuration" section that is a string, not an object
WithBadConfiguration(manifest) ==
    [json_ok |-> TRUE,
     module |-> manifest.module,
     event_bus |-> manifest.event_bus,
     shared_state |-> manifest.shared_state,
     configuration |-> [is_dict |-> FALSE]]

\* the same manifest with a property the module schema does not allow
WithSchemaViolation(manifest) ==
    [json_ok |-> TRUE,
     module |-> manifest.module,
     event_bus |-> manifest.event_bus,
     shared_state |-> manifest.shared_state,
     schema_ok |-> FALSE]

\* a UI component as a manifest declares it
Component(id) == [id |-> id, type |-> "slider"]

\* a manifest whose module object gives type, version and priority and no
\* dependencies, and whose ui section declares adaptive components
ManagerFile(name, components) ==
    [json_ok |-> TRUE,
     module |-> [name |-> name, type |-> "MANAGER", version |-> "1.2.3", priority |-> "HIGH"],
     event_bus |-> [publishes |-> <<>>, subscribes |-> <<>>],
     shared_state |-> [publishes |-> <<>>, subscribes |-> <<>>],
     ui |-> [adaptive |-> [components |-> components]]]

FileNames == {NameA, NameB}

FileDepLists == {<<Ghost>>, <<NameB>>}

FileEventPublishes == {<<>>, <<Key_a_dot_b>>, <<Key_a_us_b>>}

FileEventSubscribes == {<<>>, <<Key_a_dot_b>>}

FileStateLists == {<<>>, <<Key_t_dot_e>>}

\* the manifests a component tree may hold: broken files, modules that declare
\* dependencies, modules that declare events, modules that declare state keys,
\* modules that publish an event and have a malformed configuration section, a
\* module the schema rejects, and a manager module with a UI component
ModuleManifests ==
    {BadJson}
    \cup {ManifestFile(n, d, <<>>, <<>>, <<>>, <<>>) : n \in FileNames, d \in FileDepLists}
    \cup {ManifestFile(n, <<>>, ep, es, <<>>, <<>>) :
            n \in FileNames, ep \in FileEventPublishes, es \in FileEventSubscribes}
    \cup {ManifestFile(n, <<>>, <<>>, <<>>, sp, ss) :
            n \in FileNames, sp \in FileStateLists, ss \in FileStateLists}
    \cup {WithBadConfiguration(ManifestFile(NameA, <<>>, ep, <<>>, <<>>, <<>>)) :
            ep \in (FileEventPublishes \ {<<>>}) \cup {<<Key_a_quote_b>>}}
    \cup {WithSchemaViolation(ManifestFile(NameA, <<>>, <<Key_a_dot_b>>, <<>>, <<>>, <<>>))}
    \cup {ManagerFile(NameA, <<Component(Key_t_dot_e)>>)}

\* a *_driver_manifest.json file: its "driver" object, with the UI components the
\* driver contributes
DriverFile(name, components) ==
    [json_ok |-> TRUE,
     driver |-> [name |-> name, ui_extensions |-> [components |-> components]]]

DriverManifests ==
    {BadJson, DriverFile(NameD, <<>>), DriverFile(NameD, <<Component(Key_a_us_b)>>),
     DriverFile(NameB, <<>>)}

DiscoveryOrders(n) == {f \in [1..n -> 1..n] : \A i, j \in 1..n : i # j => f[i] # f[j]}

\* the artifacts generate_code writes, in the order it writes them
ArtifactOrder == <<"api_registry", "module_info", "system_contract", "readme", "ui_components">>

\* nothing generated yet
NoOutput == [a \in Range(ArtifactOrder) |-> NoFile]

\* ManifestProcessor.__init__: empty collections
ProcessorNew ==
    /\ manifest_files = [modules |-> <<>>, drivers |-> <<>>]
    /\ parsed = 0
    /\ modules = <<>>
    /\ drivers = <<>>
    /\ all_events = <<>>
    /\ issues = <<>>
    /\ exit_code = -1

ValidatorIdle ==
    /\ validator = NewValidator
    /\ v_input = <<>>
    /\ v_result = NoResult
    /\ v_calls = 0

\* the component trees: at most MaxFiles manifests, module and driver manifests together
Init ==
    /\ schemas \in SUBSET {ModuleSchemaFile, DriverSchemaFile}
    /\ \E n \in 0..MaxFiles, d \in 0..MaxFiles :
          /\ n + d <= MaxFiles
          /\ files \in [1..n -> ModuleManifests]
          /\ driver_files \in [1..d -> DriverManifests]
    /\ pc = "start"
    /\ ProcessorNew
    /\ report = NoFile
    /\ out = NoOutput
    /\ clock = 0
    /\ runs = 1
    /\ prev_out = NoOutput
    /\ ValidatorIdle

\* _load_schema: a missing document is reported through self.logger, an attribute
\* __init__ assigns only after both schemas are loaded, so the call raises
\* AttributeError; a document that is present is loaded
LoadSchema(filename) ==
    IF filename \in schemas
    THEN [raised |-> FALSE, schema |-> filename]
    ELSE [raised |-> TRUE, schema |-> ""]

\* main: ManifestProcessor(project_root, output_dir)
NewManifestProcessor ==
    /\ pc = "start"
    /\ IF LoadSchema(ModuleSchemaFile).raised \/ LoadSchema(DriverSchemaFile).raised
       THEN \* the exception leaves __init__ and main: traceback, exit status 1
            /\ pc' = "init_failed"
            /\ exit_code' = 1
       ELSE /\ pc' = "constructed"
            /\ UNCHANGED exit_code
    /\ UNCHANGED <<manifest_files, parsed, modules, drivers, all_events, issues, report,
                   out, clock, runs, prev_out>>
    /\ UNCHANGED disk_vars
    /\ UNCHANGED val_vars

\* discover_manifests: rglob lists the files in an order the file system chooses
DiscoverManifests ==
    /\ pc = "constructed"
    /\ \E m \in DiscoveryOrders(Len(files)), d \in DiscoveryOrders(Len(driver_files)) :
          manifest_files' = [modules |-> m, drivers |-> d]
    /\ pc' = "parsing"
    /\ UNCHANGED <<parsed, modules, drivers, all_events, issues, report, out, exit_code,
                   clock, runs, prev_out>>
    /\ UNCHANGED disk_vars
    /\ UNCHANGED val_vars

\* parse_module_manifest with the class defaults in place of the manifest's values:
\* the type, version and priority a manifest gives are dropped
ModuleInfo_ClassDefaults(manifest) ==
    LET module_data == Get(manifest, "module", <<>>)
    IN [name |-> Get(module_data, "name", <<>>),
        type |-> "STANDARD",
        version |-> "0.0.0",
        priority |-> "NORMAL",
        dependencies |-> Get(module_data, "dependencies", <<>>),
        apis |-> <<>>,
        ui |-> Get(manifest, "ui", <<>>),
        shared_state_keys |-> SectionKeys(manifest, "shared_state", "publishes"),
        events |-> SectionKeys(manifest, "event_bus", "publishes")]

\* ModuleInfo as parse_module_manifest fills it
ModuleInfo(manifest) ==
    LET module_data == Get(manifest, "module", <<>>)
    IN [name |-> Get(module_data, "name", <<>>),
        type |-> Get(module_data, "type", "STANDARD"),
        version |-> Get(module_data, "version", "0.0.0"),
        priority |-> Get(module_data, "priority", "NORMAL"),
        dependencies |-> Get(module_data, "dependencies", <<>>),
        apis |-> <<>>,
        ui |-> Get(manifest, "ui", <<>>),
        shared_state_keys |-> SectionKeys(manifest, "shared_state", "publishes"),
        events |-> SectionKeys(manifest, "event_bus", "publishes")]

\* jsonschema.validate(manifest, schema) raises ValidationError
SchemaRejects(manifest) ==
    "schema_ok" \in DOMAIN manifest /\ ~manifest.schema_ok

\* manifest['configuration'].get('config_file') on a value that is no dict raises
ConfigurationRaises(manifest) ==
    "configuration" \in DOMAIN manifest /\ ~manifest.configuration.is_dict

\* a fail-fast parse loop: a module manifest that cannot be parsed ends the run
ParseModuleManifest_FailFast ==
    /\ pc = "parsing"
    /\ parsed < Len(manifest_files.modules)
    /\ LET manifest == files[manifest_files.modules[parsed + 1]]
       IN IF ~manifest.json_ok \/ SchemaRejects(manifest) \/ ConfigurationRaises(manifest)
          THEN /\ pc' = "crashed"
               /\ exit_code' = 1
               /\ UNCHANGED <<modules, all_events>>
          ELSE LET module == ModuleInfo(manifest)
               IN /\ all_events' = DictAppendAll(all_events, module.events, module.name)
                  /\ modules' = Append(modules, module)
                  /\ UNCHANGED <<pc, exit_code>>
    /\ parsed' = parsed + 1
    /\ UNCHANGED <<manifest_files, drivers, issues, report, out, clock, runs, prev_out>>
    /\ UNCHANGED disk_vars
    /\ UNCHANGED val_vars

\* one iteration of the first loop of parse_manifests, over the module manifests
ParseModuleManifest ==
    /\ pc = "parsing"
    /\ parsed < Len(manifest_files.modules)
    /\ LET manifest == files[manifest_files.modules[parsed + 1]]
       IN IF ~manifest.json_ok
          THEN \* json.load raises; parse_manifests logs the error and goes on
               UNCHANGED <<modules, all_events>>
          ELSE IF SchemaRejects(manifest)
          THEN \* parse_module_manifest logs the error and returns None
               UNCHANGED <<modules, all_events>>
          ELSE \E module \in {ModuleInfo(manifest)} :
                  /\ all_events' = DictAppendAll(all_events, module.events, module.name)
                  /\ IF ConfigurationRaises(manifest)
                     THEN \* raised after the events were recorded; the module is dropped
                          UNCHANGED modules
                     ELSE modules' = Append(modules, module)
    /\ parsed' = parsed + 1
    /\ UNCHANGED <<manifest_files, pc, drivers, issues, report, out, exit_code, clock,
                   runs, prev_out>>
    /\ UNCHANGED disk_vars
    /\ UNCHANGED val_vars

\* driver_data as parse_driver_manifest returns it: the "driver" object of the
\* manifest with the keys manifest_path and apis added
DriverData(manifest, path) ==
    LET driver_data == Get(manifest, "driver", <<>>)
    IN [name |-> Get(driver_data, "name", <<>>),
        ui_extensions |-> Get(driver_data, "ui_extensions", [components |-> <<>>]),
        manifest_path |-> path,
        apis |-> <<>>]

\* the second loop of parse_manifests appending the record of a driver to the
\* modules as well
ParseDriverManifest_IntoModules ==
    /\ pc = "parsing"
    /\ parsed >= Len(manifest_files.modules)
    /\ parsed < Len(manifest_files.modules) + Len(manifest_files.drivers)
    /\ LET path == manifest_files.drivers[parsed - Len(manifest_files.modules) + 1]
           manifest == driver_files[path]
       IN IF ~manifest.json_ok
          THEN UNCHANGED <<drivers, modules>>
          ELSE IF SchemaRejects(manifest)
          THEN UNCHANGED <<drivers, modules>>
          ELSE /\ drivers' = Append(drivers, DriverData(manifest, path))
               /\ modules' = Append(modules, ModuleInfo([module |-> manifest.driver]))
    /\ parsed' = parsed + 1
    /\ UNCHANGED <<manifest_files, pc, all_events, issues, report, out,
                   exit_code, clock, runs, prev_out>>
    /\ UNCHANGED disk_vars
    /\ UNCHANGED val_vars

\* one iteration of the second loop of parse_manifests, over the driver manifests
ParseDriverManifest ==
    /\ pc = "parsing"
    /\ parsed >= Len(manifest_files.modules)
    /\ parsed < Len(manifest_files.modules) + Len(manifest_files.drivers)
    /\ LET path == manifest_files.drivers[parsed - Len(manifest_files.modules) + 1]
           manifest == driver_files[path]
       IN IF ~manifest.json_ok
          THEN \* json.load raises; parse_manifests logs the error and goes on
               UNCHANGED drivers
          ELSE IF SchemaRejects(manifest)
          THEN UNCHANGED drivers
          ELSE drivers' = Append(drivers, DriverData(manifest, path))
    /\ parsed' = parsed + 1
    /\ UNCHANGED <<manifest_files, pc, modules, all_events, issues, report, out,
                   exit_code, clock, runs, prev_out>>
    /\ UNCHANGED disk_vars
    /\ UNCHANGED val_vars

\* parse_manifests returning at any point of its loops
ParseManifestsDone_Early ==
    /\ pc = "parsing"
    /\ pc' = "parsed"
    /\ UNCHANGED <<manifest_files, parsed, modules, drivers, all_events, issues, report,
                   out, exit_code, clock, runs, prev_out>>
    /\ UNCHANGED disk_vars
    /\ UNCHANGED val_vars

\* parse_manifests returns
ParseManifestsDone ==
    /\ pc = "parsing"
    /\ parsed = Len(manifest_files.modules) + Len(manifest_files.drivers)
    /\ pc' = "parsed"
    /\ UNCHANGED <<manifest_files, parsed, modules, drivers, all_events, issues, report,
                   out, exit_code, clock, runs, prev_out>>
    /\ UNCHANGED disk_vars
    /\ UNCHANGED val_vars

\* _module_to_dict: the keys 'module', 'ui' and 'apis' and no other
ModuleToDict(module) ==
    [module |-> [name |-> module.name, type |-> module.type, version |-> module.version,
                 priority |-> module.priority],
     ui |-> module.ui,
     apis |-> module.apis]

\* the loop of validate_manifest_consistency that prepares all_manifests: its body
\* reads module.shared_state, an attribute ModuleInfo does not have, so the first
\* iteration raises AttributeError
PrepareManifests(mods) ==
    IF Len(mods) = 0
    THEN [raised |-> FALSE, all_manifests |-> <<>>]
    ELSE [raised |-> TRUE, all_manifests |-> <<>>]

\* step 3 of process_all: validate_manifest_consistency and the exit on failure
ValidateManifestConsistency ==
    /\ pc = "parsed"
    /\ LET prep == PrepareManifests(modules)
           r == ValidateAll(NewValidator, prep.all_manifests)
       IN IF prep.raised
          THEN \* the exception leaves process_all and main: traceback, exit status 1
               /\ pc' = "crashed"
               /\ exit_code' = 1
               /\ UNCHANGED <<issues, report>>
          ELSE /\ issues' = r.issues
               /\ report' = GenerateValidationReport(r.validator)
               /\ IF r.is_valid
                  THEN pc' = "validated" /\ UNCHANGED exit_code
                  ELSE pc' = "exited" /\ exit_code' = 1
    /\ UNCHANGED <<manifest_files, parsed, modules, drivers, all_events, out, clock, runs,
                   prev_out>>
    /\ UNCHANGED disk_vars
    /\ UNCHANGED val_vars

\* the names resolve_dependencies takes as known besides the names of the modules
ResolveSystemDependencies == {ESPhal, SharedState, EventBus}

\* the pairs (module, dependency) resolve_dependencies logs as unknown for these
\* ModuleInfo records: module_names is built from the records, the drivers are not read
UnknownDependencies(mods) ==
    LET module_names == {mods[i].name : i \in 1..Len(mods)}
    IN UNION {{<<mods[i].name, dep>> :
                  dep \in {d \in Range(mods[i].dependencies) :
                             d \notin module_names /\ d \notin ResolveSystemDependencies}} :
              i \in 1..Len(mods)}

\* step 4 of process_all: resolve_dependencies logs UnknownDependencies(modules) and
\* changes nothing
ResolveDependencies ==
    /\ pc = "validated"
    /\ pc' = "resolved"
    /\ UNCHANGED <<manifest_files, parsed, modules, drivers, all_events, issues, report,
                   out, exit_code, clock, runs, prev_out>>
    /\ UNCHANGED disk_vars
    /\ UNCHANGED val_vars

\* event.upper().replace('.', '_')
ConstName(key) == ReplaceDots(Upper(key))

\* f'"{value}"': the value between double quotes, character for character
Quoted(value) == <<34>> \o value \o <<34>>

\* constexpr const char* NAME = "value";
Constants(keys) ==
    [i \in 1..Len(keys) |->
        [name |-> ConstName(keys[i]), value |-> keys[i], literal |-> Quoted(keys[i])]]

\* generate_api_registry: the header line with datetime.now(), then one group per
\* module that has APIs, in the order of self.modules
GenerateApiRegistry(mods, now) ==
    [stamp |-> now,
     groups |-> SelectSeq([i \in 1..Len(mods) |-> [module |-> mods[i].name, apis |-> mods[i].apis]],
                          LAMBDA g : Len(g.apis) > 0)]

\* generate_module_info: the header line with datetime.now(), then one record per
\* module in the order of self.modules
GenerateModuleInfo(mods, now) ==
    [stamp |-> now,
     records |-> [i \in 1..Len(mods) |->
                    [name |-> mods[i].name, dependencies |-> mods[i].dependencies,
                     name_literal |-> Quoted(mods[i].name)]],
     count |-> Len(mods)]

\* all_states of generate_event_registry: the 'shared_state' publishes of every
\* _module_to_dict(module), later keys overwriting equal earlier ones
RECURSIVE AllStates(_)
AllStates(mods) ==
    IF Len(mods) = 0 THEN <<>>
    ELSE LET keys == SectionKeys(ModuleToDict(mods[1]), "shared_state", "publishes")
             rest == AllStates(Tail(mods))
         IN keys \o SelectSeq(rest, LAMBDA k : k \notin Range(keys))

\* generate_event_registry: generated_system_contract.h
GenerateEventRegistry(mods, events, now) ==
    [stamp |-> now,
     events |-> Constants(Sorted(DictKeys(events))),
     states |-> Constants(Sorted(AllStates(mods)))]

\* _generate_contract_readme
GenerateContractReadme(mods, events, now) ==
    [stamp |-> now, total_events |-> Len(events), total_modules |-> Len(mods)]

\* comp['source'] = source: the component dict itself gets the key
Tag(comp, source) ==
    [k \in DOMAIN comp \cup {"source"} |-> IF k = "source" THEN source ELSE comp[k]]

\* module.get('ui', {}).get('adaptive', {}).get('components', [])
AdaptiveComponents(ui) == Get(Get(ui, "adaptive", <<>>), "components", <<>>)

\* the ui dict of a manager module after the first loop of _collect_components has
\* assigned comp['source'] in each of its components; the dict is the one the
\* ModuleInfo holds, _module_to_dict passes it by reference
TagComponents(ui, source) ==
    IF Len(AdaptiveComponents(ui)) = 0 THEN ui
    ELSE [ui EXCEPT !.adaptive.components =
             [i \in 1..Len(AdaptiveComponents(ui)) |-> Tag(AdaptiveComponents(ui)[i], source)]]

\* the first loop of _collect_components: the components of the manager modules,
\* each with its module's name as source, in the order of the modules
RECURSIVE ManagerComponents(_)
ManagerComponents(mods) ==
    IF Len(mods) = 0 THEN <<>>
    ELSE LET module == mods[1]
         IN (IF module.module.type = "MANAGER"
             THEN AdaptiveComponents(TagComponents(module.ui, module.module.name))
             ELSE <<>>)
            \o ManagerComponents(Tail(mods))

\* _collect_components: the components of the manager modules, then those of the
\* drivers; for the first component of a driver the loop reads driver['driver']['name'],
\* a key parse_driver_manifest's result does not have, and raises KeyError before it
\* assigns or appends anything
CollectComponents(mods, drvs) ==
    [raised |-> \E i \in 1..Len(drvs) : Len(drvs[i].ui_extensions.components) > 0,
     all_components |-> ManagerComponents(mods)]

\* self.modules once generate_adaptive_ui has been called on their dicts: the ui of
\* every manager module holds the tagged components
ModulesAfterCollect(mods) ==
    [i \in 1..Len(mods) |->
        IF mods[i].type = "MANAGER"
        THEN [mods[i] EXCEPT !.ui = TagComponents(mods[i].ui, mods[i].name)]
        ELSE mods[i]]

\* generate_adaptive_ui: generated_ui_components.h and generated_component_factories.cpp
GenerateAdaptiveUi(mods, drvs) ==
    LET collected == CollectComponents(mods, drvs)
    IN [raised |-> collected.raised,
        components |-> collected.all_components,
        count |-> Len(collected.all_components)]

\* generate_code: every emitter in turn
GeneratedArtifacts(mods, drvs, events, now) ==
    [api_registry |-> GenerateApiRegistry(mods, now),
     module_info |-> GenerateModuleInfo(mods, now),
     system_contract |-> GenerateEventRegistry(mods, events, now),
     readme |-> GenerateContractReadme(mods, events, now),
     ui_components |-> GenerateAdaptiveUi([i \in 1..Len(mods) |-> ModuleToDict(mods[i])], drvs)]

\* the directories generate_code writes to: --output-dir, and
\* components/system_contract under the project root
OutputDir == "output_dir"
ContractDir == "system_contract"

\* what the file system may refuse while generate_code runs
WriteFailures == {"none", OutputDir, ContractDir}

\* the number of artifacts generate_code has written when it returns or raises: none
\* when the output directory cannot be written, the three before the documentation
\* when its directory cannot be written, all but the UI components when
\* _collect_components raises
ArtifactsWritten(unwritable, artifacts) ==
    IF unwritable = OutputDir THEN 0
    ELSE IF unwritable = ContractDir THEN 3
    ELSE IF artifacts.ui_components.raised THEN 4
    ELSE Len(ArtifactOrder)

\* the generated files after the first n artifacts were written over them
WriteArtifacts(old, artifacts, n) ==
    [a \in DOMAIN old |->
        IF \E i \in 1..n : ArtifactOrder[i] = a THEN artifacts[a] ELSE old[a]]

\* datetime.now() as the emitters of this run read it: the first run is at the time
\* the model starts with, a later run at the second of the emission before it or later
EmissionTimes == IF runs = 1 THEN {clock} ELSE {clock, clock + 1}

\* step 5 of process_all, and its end
GenerateCode ==
    /\ pc = "resolved"
    /\ \E unwritable \in WriteFailures, now \in EmissionTimes :
         LET artifacts == GeneratedArtifacts(modules, drivers, all_events, now)
             n == ArtifactsWritten(unwritable, artifacts)
         IN /\ out' = WriteArtifacts(out, artifacts, n)
            /\ clock' = now
            /\ modules' = IF n >= 4 THEN ModulesAfterCollect(modules) ELSE modules
            /\ IF n = Len(ArtifactOrder)
               THEN pc' = "done" /\ exit_code' = 0
               ELSE \* the exception leaves process_all and main: exit status 1
                    pc' = "crashed" /\ exit_code' = 1
    /\ UNCHANGED <<manifest_files, parsed, drivers, all_events, issues, report,
                   runs, prev_out>>
    /\ UNCHANGED disk_vars
    /\ UNCHANGED val_vars

Ended == pc \in {"done", "exited", "crashed", "init_failed", "generated"}

\* the program is invoked again on the same component tree
RunAgain ==
    /\ Ended
    /\ runs < MaxRuns
    /\ runs' = runs + 1
    /\ prev_out' = out
    /\ pc' = "start"
    /\ manifest_files' = [modules |-> <<>>, drivers |-> <<>>]
    /\ parsed' = 0
    /\ modules' = <<>>
    /\ drivers' = <<>>
    /\ all_events' = <<>>
    /\ issues' = <<>>
    /\ exit_code' = -1
    /\ UNCHANGED <<report, out, clock>>
    /\ UNCHANGED disk_vars
    /\ UNCHANGED val_vars

Next ==
    \/ NewManifestProcessor
    \/ DiscoverManifests
    \/ ParseModuleManifest
    \/ ParseDriverManifest
    \/ ParseManifestsDone
    \/ ValidateManifestConsistency
    \/ ResolveDependencies
    \/ GenerateCode
    \/ RunAgain

Spec == Init /\ [][Next]_vars

---------------------------------------------------------------------------
(* The processor's steps called one by one: the constructor,               *)
(* discover_manifests, parse_manifests, then generate_code on what was     *)
(* parsed.                                                                 *)

CallGenerateCode ==
    /\ pc = "parsed"
    /\ \E unwritable \in WriteFailures, now \in EmissionTimes :
         LET artifacts == GeneratedArtifacts(modules, drivers, all_events, now)
             n == ArtifactsWritten(unwritable, artifacts)
         IN /\ out' = WriteArtifacts(out, artifacts, n)
            /\ clock' = now
            /\ modules' = IF n >= 4 THEN ModulesAfterCollect(modules) ELSE modules
            /\ pc' = IF n = Len(ArtifactOrder) THEN "generated" ELSE "crashed"
    /\ UNCHANGED <<manifest_files, parsed, drivers, all_events, issues, report,
                   exit_code, runs, prev_out>>
    /\ UNCHANGED disk_vars
    /\ UNCHANGED val_vars

NextEmit ==
    \/ NewManifestProcessor
    \/ DiscoverManifests
    \/ ParseModuleManifest
    \/ ParseDriverManifest
    \/ ParseManifestsDone
    \/ CallGenerateCode
    \/ RunAgain

SpecEmit == Init /\ [][NextEmit]_vars

---------------------------------------------------------------------------
(* The constructor, discover_manifests and parse_manifests over component     *)
(* trees whose module manifests give any of the optional fields of the module *)
(* object or leave them out.                                                  *)

\* the values the manifests of these trees give to the optional fields
OptionalFields ==
    [type |-> "MANAGER", version |-> "1.2.3", priority |-> "HIGH", dependencies |-> <<NameB>>]

\* a module object named A that has the optional fields of the set and no others
ModuleObject(present) ==
    [f \in {"name"} \cup present |-> IF f = "name" THEN NameA ELSE OptionalFields[f]]

\* a broken file, and a manifest for every choice of optional fields
ParseModuleManifests ==
    {BadJson}
    \cup {[json_ok |-> TRUE, module |-> ModuleObject(present)] :
            present \in SUBSET (DOMAIN OptionalFields)}

InitParse ==
    /\ schemas = {ModuleSchemaFile, DriverSchemaFile}
    /\ \E n \in 0..MaxFiles, d \in 0..MaxFiles :
          /\ n + d <= MaxFiles
          /\ files \in [1..n -> ParseModuleManifests]
          /\ driver_files \in [1..d -> DriverManifests]
    /\ pc = "start"
    /\ ProcessorNew
    /\ report = NoFile
    /\ out = NoOutput
    /\ clock = 0
    /\ runs = 1
    /\ prev_out = NoOutput
    /\ ValidatorIdle

NextParse ==
    \/ NewManifestProcessor
    \/ DiscoverManifests
    \/ ParseModuleManifest
    \/ ParseDriverManifest
    \/ ParseManifestsDone

SpecParse == InitParse /\ [][NextParse]_vars

---------------------------------------------------------------------------
(* Claims *)

DependencyIssueFor(iss, module_name, dep) ==
    \E i \in 1..Len(iss) :
        /\ iss[i].category = "DEPENDENCY"
        /\ iss[i].source_module = module_name
        /\ iss[i].target = dep

\* an invocation of process_all has ended, normally or not
RunEnded == pc \in {"done", "exited", "crashed", "init_failed"}

\* this invocation reached generate_code
Emitted == pc = "done"

\* the dependencies the manifest file i declares
FileDeps(i) == Get(files[i].module, "dependencies", <<>>)

\* the manifests parse_manifests turns into module records
ParsedFiles ==
    {i \in 1..Len(files) : /\ files[i].json_ok
                           /\ ~SchemaRejects(files[i])
                           /\ ~ConfigurationRaises(files[i])}

\* every artifact of o has been written
Complete(o) == \A a \in DOMAIN o : o[a] # NoFile

ParsedNames == {files[i].module.name : i \in ParsedFiles}

EventKeys == {Key_a_dot_b, Key_a_us_b}

StateKeys == {Key_t_dot_e}

Declares(section, part, key) ==
    {i \in ParsedFiles : key \in Range(files[i][section][part])}

\* the names of the modules of S joined by ", ", in any order
JoinedNames(S) ==
    {Join(order) : order \in {o \in UNION {[1..n -> ParsedNames] : n \in 1..MaxFiles} :
                                /\ Len(o) = Cardinality(S)
                                /\ \A i \in S : \E j \in 1..Len(o) : o[j] = files[i].module.name}}

IssuesWith(iss, severity, category, target) ==
    {i \in 1..Len(iss) : /\ iss[i].severity = severity
                         /\ iss[i].category = category
                         /\ iss[i].target = target}

\* C1: emission is skipped and the process exits non-zero if and only if the run's
\* issue list holds an issue of severity ERROR.
C1_FatalGate ==
    RunEnded => ((~Emitted /\ exit_code # 0) <=> HasErrors(issues))

\* C2: a run that emits over unchanged manifests leaves every generated artifact as
\* the previous emitting run left it, whatever the time of the two runs.
C2_EmissionIdempotent ==
    (Emitted /\ Complete(prev_out)) => out = prev_out

\* the artifacts without their "Generated ... on <time>" lines
Unstamped(o) ==
    [api_registry |-> o.api_registry.groups,
     module_info |-> <<o.module_info.records, o.module_info.count>>,
     system_contract |-> <<o.system_contract.events, o.system_contract.states>>,
     readme |-> <<o.readme.total_events, o.readme.total_modules>>,
     ui_components |-> o.ui_components]

\* C3: for a fixed set of manifest files, two emissions that discovered the files in
\* any two orders produce the same artifacts (the time of generation set aside).
C3_DiscoveryOrderIndependent ==
    (pc = "generated" /\ Complete(prev_out)) => Unstamped(out) = Unstamped(prev_out)

\* C4: when a run has ended, every event that a parsed module publishes and none
\* subscribes to has exactly one EVENT WARNING whose target is the event and whose
\* source names the publishing modules, and an event with a subscriber has none.
C4_OrphanEventWarning ==
    RunEnded =>
        \A e \in EventKeys :
            LET pubs == Declares("event_bus", "publishes", e)
                subs == Declares("event_bus", "subscribes", e)
                warn == IssuesWith(issues, "WARNING", "EVENT", e)
            IN /\ (pubs # {} /\ subs = {}) =>
                     /\ Cardinality(warn) = 1
                     /\ \A i \in warn : issues[i].source_module \in JoinedNames(pubs)
               /\ subs # {} => warn = {}

\* C5: when a run has ended, every event that a parsed module subscribes to and none
\* publishes has exactly one EVENT ERROR whose target is the event, and the run failed.
C5_MissingPublisherError ==
    RunEnded =>
        \A e \in EventKeys :
            (Declares("event_bus", "subscribes", e) # {}
             /\ Declares("event_bus", "publishes", e) = {}) =>
                /\ Cardinality(IssuesWith(issues, "ERROR", "EVENT", e)) = 1
                /\ ~Emitted
                /\ exit_code # 0

\* C6: when a run has ended, every dependency of a parsed module that is neither a
\* parsed module's name nor a built-in service has a DEPENDENCY ERROR naming the
\* module and the dependency, the exit code is non-zero and the generated files are
\* as they were before the run.
C6_UnknownDependencyError ==
    RunEnded =>
        \A i \in ParsedFiles :
            \A j \in 1..Len(FileDeps(i)) :
                LET dep == FileDeps(i)[j]
                IN (dep \notin ParsedNames
                    /\ dep \notin SystemDependencies
                    /\ dep \notin {HAL, SharedStateStore}) =>
                        /\ \E k \in IssuesWith(issues, "ERROR", "DEPENDENCY", dep) :
                               issues[k].source_module = files[i].module.name
                        /\ exit_code # 0
                        /\ out = prev_out

\* validate_all, and with it validate_dependencies, has run on v_input
DepsChecked == v_calls > 0

DepCases == {<<i, j>> \in (1..Len(v_input)) \X (1..2) : j <= Len(v_input[i].module.dependencies)}

\* C7 as stated: a declared dependency raises no issue exactly when it is a parsed
\* module's name or one of HAL, SharedStateStore, EventBus, ConfigManager.
C7_AllowListAsStated ==
    DepsChecked =>
        \A c \in DepCases :
            LET m == v_input[c[1]].module
                dep == m.dependencies[c[2]]
            IN ~DependencyIssueFor(v_result.issues, m.name, dep)
               <=> (dep \in ModuleNames(v_input)
                    \/ dep \in {HAL, SharedStateStore, EventBus, ConfigManager})

\* C7 amended: a declared dependency raises no issue exactly when it is a parsed
\* module's name or one of ESPhal, SharedState, EventBus, ConfigManager; every other
\* dependency name yields a DEPENDENCY issue of severity ERROR for the declaring module.
C7_AllowList ==
    DepsChecked =>
        \A c \in DepCases :
            LET m == v_input[c[1]].module
                dep == m.dependencies[c[2]]
                known == dep \in ModuleNames(v_input)
                           \/ dep \in {<<69,83,80,104,97,108>>,
                                       <<83,104,97,114,101,100,83,116,97,116,101>>,
                                       <<69,118,101,110,116,66,117,115>>,
                                       <<67,111,110,102,105,103,77,97,110,97,103,101,114>>}
            IN /\ known <=> ~DependencyIssueFor(v_result.issues, m.name, dep)
               /\ ~known =>
                    \E i \in 1..Len(v_result.issues) :
                        v_result.issues[i] =
                            ValidationIssue("ERROR", "DEPENDENCY",
                                "depends on non-existent module", m.name, dep)

\* a call in which a module depends on an unknown name and on a built-in service
C7_Witness ==
    /\ DepsChecked
    /\ Len(v_input) = 2
    /\ v_input[1].module.name = NameA
    /\ v_input[1].module.dependencies = <<Ghost, EventBus>>
    /\ v_input[2].module.name = NameB
    /\ DependencyIssueFor(v_result.issues, NameA, Ghost)
    /\ ~DependencyIssueFor(v_result.issues, NameA, EventBus)

\* every published key has a subscriber in another module, every subscribed key a
\* publisher, no key two publishers, and every dependency resolves
Consistent ==
    /\ \A sec \in {"event_bus", "shared_state"} : \A k \in EventKeys \cup StateKeys :
          LET pubs == Declares(sec, "publishes", k)
              subs == Declares(sec, "subscribes", k)
          IN /\ Cardinality(pubs) <= 1
             /\ subs # {} => pubs # {}
             /\ \A p \in pubs : \E q \in subs : q # p
    /\ \A i \in ParsedFiles : \A j \in 1..Len(FileDeps(i)) :
          FileDeps(i)[j] \in ParsedNames \cup SystemDependencies

\* C8: a run over consistent manifests ends with no issue, a report that says that
\* no issues were found, and the artifacts emitted.
C8_ConsistentRunPasses ==
    (RunEnded /\ Consistent) =>
        /\ issues = <<>>
        /\ report = GenerateValidationReport(NewValidator)
        /\ Emitted

\* no rule of the validator's table that is an ERROR applies to the parsed modules
NoErrorCondition ==
    /\ \A sec \in {"event_bus", "shared_state"} : \A k \in EventKeys \cup StateKeys :
          Declares(sec, "subscribes", k) # {} => Declares(sec, "publishes", k) # {}
    /\ \A i \in ParsedFiles : \A j \in 1..Len(FileDeps(i)) :
          FileDeps(i)[j] \in ParsedNames \cup SystemDependencies

ConstantsFor(namespace, key) ==
    {i \in 1..Len(namespace) : namespace[i].value = key}

\* C9: after generate_code over modules that raise no ERROR, the constants header
\* holds exactly one constant, named by the transform, in Events for every event a
\* parsed module publishes or subscribes to, and in States for every state key a
\* parsed module declares.
C9_OneConstantPerKey ==
    (pc = "generated" /\ NoErrorCondition) =>
        /\ \A e \in EventKeys :
              (Declares("event_bus", "publishes", e) \cup Declares("event_bus", "subscribes", e)) # {}
              => /\ Cardinality(ConstantsFor(out.system_contract.events, e)) = 1
                 /\ \A i \in ConstantsFor(out.system_contract.events, e) :
                       out.system_contract.events[i].name = ReplaceDots(Upper(e))
        /\ \A k \in StateKeys :
              (Declares("shared_state", "publishes", k) \cup Declares("shared_state", "subscribes", k)) # {}
              => /\ Cardinality(ConstantsFor(out.system_contract.states, k)) = 1
                 /\ \A i \in ConstantsFor(out.system_contract.states, k) :
                       out.system_contract.states[i].name = ReplaceDots(Upper(k))

DistinctNames(namespace) ==
    \A i, j \in 1..Len(namespace) : i # j => namespace[i].name # namespace[j].name

\* C10: the constants header a run emits never holds two constants of the same name
\* in one namespace.
C10_NoCollidingConstants ==
    Emitted =>
        /\ DistinctNames(out.system_contract.events)
        /\ DistinctNames(out.system_contract.states)

\* two module records have the same name, or one has an empty name
NamesClash(mods) ==
    \E i \in 1..Len(mods) :
        \/ Len(mods[i].name) = 0
        \/ \E j \in 1..Len(mods) : j # i /\ mods[j].name = mods[i].name

\* C11: when a run has ended, the names of the module records are non-empty and
\* pairwise distinct, or the run's issue list holds an issue.
C11_UniqueModuleNames ==
    RunEnded => (NamesClash(modules) => issues # <<>>)

\* the manifest lists the method among its static APIs
Registers(manifest, method) ==
    \E a \in Range(SectionKeys(manifest, "apis", "static")) : a.method = method

\* C12: after validate_all on a fresh validator, every API method that two modules
\* of different names register has an issue whose target is the method.
C12_DuplicateApiSurfaced ==
    v_calls = 1 =>
        \A method \in {Method_get} :
            (\E i, j \in 1..Len(v_input) :
                /\ v_input[i].module.name # v_input[j].module.name
                /\ Registers(v_input[i], method)
                /\ Registers(v_input[j], method))
            => \E k \in 1..Len(v_result.issues) : v_result.issues[k].target = method

\* a manifest file that is valid JSON, that the schema accepts and whose sections
\* have the shape the parser reads
WellFormed(file) ==
    /\ file.json_ok
    /\ "schema_ok" \in DOMAIN file => file.schema_ok
    /\ "configuration" \in DOMAIN file => file.configuration.is_dict

\* parse_manifests has returned in this run
ParseReturned == pc \in {"parsed", "validated", "resolved", "done", "exited", "crashed"}

\* the well-formed files among the discovered ones, in discovery order
WellFormedPaths(paths, on_disk) == SelectSeq(paths, LAMBDA p : WellFormed(on_disk[p]))

\* C13: when parse_manifests has returned, it has visited every discovered module and
\* driver manifest, and the module records and the driver records are those of the
\* well-formed files, one record per file, in discovery order; no run ends before.
C13_BadFileSkipped ==
    /\ RunEnded /\ pc # "init_failed" => ParseReturned
    /\ ParseReturned =>
          LET good_modules == WellFormedPaths(manifest_files.modules, files)
              good_drivers == WellFormedPaths(manifest_files.drivers, driver_files)
          IN /\ parsed = Len(manifest_files.modules) + Len(manifest_files.drivers)
             /\ Len(modules) = Len(good_modules)
             /\ \A i \in 1..Len(good_modules) :
                   /\ modules[i].name = files[good_modules[i]].module.name
                   /\ modules[i].events = files[good_modules[i]].event_bus.publishes
             /\ Len(drivers) = Len(good_drivers)
             /\ \A i \in 1..Len(good_drivers) :
                   /\ drivers[i].name = driver_files[good_drivers[i]].driver.name
                   /\ drivers[i].manifest_path = good_drivers[i]

\* parse_manifests has returned after a broken module manifest, then a well-formed
\* one, and after a broken driver manifest or none
C13_Witness ==
    /\ pc = "parsed"
    /\ Len(manifest_files.modules) + Len(manifest_files.drivers) = MaxFiles
    /\ Len(manifest_files.modules) > 0
    /\ ~WellFormed(files[manifest_files.modules[1]])
    /\ \/ /\ Len(manifest_files.modules) > 1
          /\ WellFormed(files[manifest_files.modules[2]])
          /\ Len(modules) = 1
       \/ /\ Len(manifest_files.drivers) > 0
          /\ WellFormed(driver_files[manifest_files.drivers[1]])
          /\ Len(drivers) = 1

\* one of the two schema documents is not on disk
SchemaAbsent == schemas # {ModuleSchemaFile, DriverSchemaFile}

\* C14: in a run with a schema document absent the constructor does not fail, and
\* once the run has ended every manifest that is valid JSON has been parsed.
C14_MissingSchemaSoftFail ==
    SchemaAbsent =>
        /\ pc # "init_failed"
        /\ RunEnded => parsed = Len(files) + Len(driver_files)

\* the steps between positions of a run that the order DISCOVER, PARSE, VALIDATE,
\* then FAIL or RESOLVE, EMIT, DONE allows; a run may also end by an exception in
\* the constructor, in VALIDATE or in EMIT
PhaseOrder ==
    {<<"start", "constructed">>, <<"start", "init_failed">>,
     <<"constructed", "parsing">>,
     <<"parsing", "parsed">>,
     <<"parsed", "validated">>, <<"parsed", "exited">>, <<"parsed", "crashed">>,
     <<"validated", "resolved">>,
     <<"resolved", "done">>, <<"resolved", "crashed">>}
    \cup {<<end, "start">> : end \in {"done", "exited", "crashed", "init_failed"}}

AllManifestsParsed == parsed = Len(files) + Len(driver_files)

\* C15: every step of a run follows the order of the phases; PARSE ends and VALIDATE
\* writes its report only when every discovered manifest has been parsed; an emitter
\* writes only after validation has passed, that is after VALIDATE has written its
\* report, returned no ERROR and RESOLVE has run; a run that fails validation stops
\* without emitting.
C15_PhaseOrder ==
    [][ /\ pc' # pc => <<pc, pc'>> \in PhaseOrder
        /\ (pc = "parsing" /\ pc' = "parsed") => AllManifestsParsed
        /\ report' # report => (pc = "parsed" /\ AllManifestsParsed)
        /\ out' # out => /\ pc = "resolved"
                         /\ AllManifestsParsed
                         /\ report # NoFile
                         /\ ~HasErrors(issues)
        /\ pc' = "exited" => (HasErrors(issues') /\ report' # NoFile /\ out' = out)
      ]_vars

\* a run that went through every phase up to DONE over a tree of MaxFiles manifests
C15_Witness ==
    /\ pc = "done"
    /\ Len(manifest_files.modules) + Len(manifest_files.drivers) = MaxFiles
    /\ AllManifestsParsed
    /\ report # NoFile
    /\ Complete(out)

\* an event that a parsed module publishes and no parsed module subscribes to: the
\* case of the validator's orphan-event rule
OrphanEvents ==
    {e \in EventKeys : /\ Declares("event_bus", "publishes", e) # {}
                       /\ Declares("event_bus", "subscribes", e) = {}}

C17_AllOrNothing ==
    (runs = 1 /\ RunEnded) => (out = NoOutput \/ Complete(out))

\* the text holds no quote, and no backslash, other than as the second character of
\* an escape sequence that a backslash starts
RECURSIVE Escaped(_)
Escaped(text) ==
    IF Len(text) = 0 THEN TRUE
    ELSE IF text[1] = 92 THEN Len(text) >= 2 /\ Escaped(Tail(Tail(text)))
    ELSE IF text[1] = 34 THEN FALSE
    ELSE Escaped(Tail(text))

\* a string literal: a quote, escaped text, a quote
EscapedLiteral(literal) ==
    /\ Len(literal) >= 2
    /\ literal[1] = 34
    /\ literal[Len(literal)] = 34
    /\ Escaped(SubSeq(literal, 2, Len(literal) - 1))

\* C18: in the artifacts a run emits, every string literal that embeds a module name,
\* an event key or a state key is a quote, the value with its quotes and backslashes
\* escaped, and a quote.
C18_LiteralsEscaped ==
    Emitted =>
        /\ \A i \in 1..Len(out.module_info.records) :
              EscapedLiteral(out.module_info.records[i].name_literal)
        /\ \A i \in 1..Len(out.system_contract.events) :
              EscapedLiteral(out.system_contract.events[i].literal)
        /\ \A i \in 1..Len(out.system_contract.states) :
              EscapedLiteral(out.system_contract.states[i].literal)

\* the same module records in another order
Reordered(mods, order) == [i \in 1..Len(mods) |-> mods[order[i]]]

\* a publisher or subscriber table as a map from key to the set of module names
NamesByKey(d) == {<<d[i].k, Range(d[i].v)>> : i \in 1..Len(d)}

\* the api owner table as a map from method to module name
OwnerByMethod(d) == {<<d[i].k, d[i].v>> : i \in 1..Len(d)}

\* the index tables of a validator, without the order of their entries
IndexTables(v) ==
    [event_publishers |-> NamesByKey(v.event_publishers),
     event_subscribers |-> NamesByKey(v.event_subscribers),
     state_publishers |-> NamesByKey(v.state_publishers),
     state_subscribers |-> NamesByKey(v.state_subscribers),
     api_providers |-> OwnerByMethod(v.api_providers)]

\* C19: validate_all on a new validator over the same module records in any other
\* order builds the same index tables and returns the same issues (the order of the
\* table entries and of the issues set aside).
C19_OrderIndependentIndex ==
    v_calls = 1 =>
        \A order \in DiscoveryOrders(Len(v_input)) :
            LET other == ValidateAll(NewValidator, Reordered(v_input, order))
            IN /\ IndexTables(other.validator) = IndexTables(validator)
               /\ Range(other.issues) = Range(v_result.issues)

\* C20: whatever calls the validator has served before, validate_all returns for a
\* list of modules the issues a new validator returns for it; in particular a second
\* call with the same list returns what the first returned.
C20_IndexRebuiltEveryCall ==
    v_calls > 0 => v_result.issues = ValidateAll(NewValidator, v_input).issues


\* the issues of the last call in the order the three checks appended them, before
\* the sort: the checks run on the tables the call left in the validator
Discovered ==
    ValidateDependencies(
        ValidateSharedState(ValidateEvents([validator EXCEPT !.issues = <<>>])),
        v_input).issues

WithSeverity(iss, sev) == SelectSeq(iss, LAMBDA i : i.severity = sev)

\* C21: the issue list validate_all returns is in ascending order of severity rank
\* (ERROR, WARNING, INFO), and the issues of one severity are in the order in which
\* the checks found them.
C21_SortedBySeverity ==
    v_calls > 0 =>
        LET found == Discovered
        IN /\ \A i, j \in 1..Len(v_result.issues) :
                 i < j => SeverityRank(v_result.issues[i].severity)
                            <= SeverityRank(v_result.issues[j].severity)
           /\ \A sev \in {"ERROR", "WARNING", "INFO"} :
                 WithSeverity(v_result.issues, sev) = WithSeverity(found, sev)
           /\ Len(v_result.issues) = Len(found)

\* a call whose checks found a WARNING before an ERROR, and two issues of one
\* severity from different checks, so that the sort moved issues and had a tie
C21_Witness ==
    /\ v_calls > 0
    /\ v_result.issues # Discovered
    /\ \E i, j \in 1..Len(Discovered) :
          /\ i < j
          /\ Discovered[i].severity = "WARNING"
          /\ Discovered[j].severity = "ERROR"
    /\ \E i, j \in 1..Len(v_result.issues) :
          /\ i < j
          /\ v_result.issues[i].severity = v_result.issues[j].severity
          /\ v_result.issues[i].category # v_result.issues[j].category


\* the issues of the list with this severity, category, target and message
IssuesSaying(iss, severity, category, target, message) ==
    {i \in IssuesWith(iss, severity, category, target) : iss[i].message = message}

\* C22: when a run that got past the constructor has ended, every state key that a
\* parsed module writes and none reads has exactly one STATE WARNING that says that
\* the key is written but never read, and every state key that a parsed module reads
\* and none writes has exactly one STATE ERROR whose target is the key, and the run
\* failed without emitting.
C22_StateKeyIssues ==
    (RunEnded /\ pc # "init_failed") =>
        \A k \in StateKeys :
            LET writers == Declares("shared_state", "publishes", k)
                readers == Declares("shared_state", "subscribes", k)
            IN /\ (writers # {} /\ readers = {}) =>
                     Cardinality(IssuesSaying(issues, "WARNING", "STATE", k,
                                              "is written but never read")) = 1
               /\ (readers # {} /\ writers = {}) =>
                     /\ Cardinality(IssuesWith(issues, "ERROR", "STATE", k)) = 1
                     /\ ~Emitted
                     /\ exit_code # 0


\* the manifests of the call that list the key under publishes of the section
PublishersOf(section, key) ==
    {i \in 1..Len(v_input) : key \in Range(SectionKeys(v_input[i], section, "publishes"))}

\* the names of the publishers joined by ", " in the order of the manifests
PublisherNames(section, key) ==
    Join([i \in 1..Cardinality(PublishersOf(section, key)) |->
            SelectSeq(v_input,
                      LAMBDA m : key \in Range(SectionKeys(m, section, "publishes")))[i].module.name])

\* for the key of the section: with more than one publisher the list holds exactly
\* one issue of this severity with this message, from the publishers, and no ERROR
\* for the key; with one publisher or none it holds no such issue
OneIssueIfSeveral(section, key, severity, category, message) ==
    LET several == IssuesSaying(v_result.issues, severity, category, key, message)
    IN IF Cardinality(PublishersOf(section, key)) > 1
       THEN /\ Cardinality(several) = 1
            /\ \A i \in several :
                  v_result.issues[i].source_module = PublisherNames(section, key)
            /\ IssuesWith(v_result.issues, "ERROR", category, key) = {}
       ELSE several = {}

\* C23: after validate_all on a new validator, an event that more than one manifest
\* publishes has exactly one INFO issue that says so and a state key that more than
\* one manifest writes has exactly one WARNING that says so, next to the other issues
\* of the key and never an ERROR; a key with one publisher has none; every manifest
\* that lists the key counts once.
C23_SeveralPublishers ==
    v_calls = 1 =>
        /\ \A e \in {Key_a_dot_b} :
              OneIssueIfSeveral("event_bus", e, "INFO", "EVENT",
                                "is published by multiple modules")
        /\ \A k \in StateKeys :
              OneIssueIfSeveral("shared_state", k, "WARNING", "STATE",
                                "is written by multiple modules - potential conflict")

\* a call with an event that two modules publish and none subscribes to, and a state
\* key that one module writes
C23_Witness ==
    /\ v_calls = 1
    /\ Cardinality(PublishersOf("event_bus", Key_a_dot_b)) = 2
    /\ Cardinality(PublishersOf("shared_state", Key_t_dot_e)) = 1
    /\ \E i \in 1..Len(v_result.issues) :
          v_result.issues[i] = ValidationIssue("INFO", "EVENT",
                                   "is published by multiple modules",
                                   Join(<<NameA, NameB>>), Key_a_dot_b)
    /\ IssuesWith(v_result.issues, "WARNING", "EVENT", Key_a_dot_b) # {}


\* the names of the drivers parse_manifests has recorded
DriverNames == {drivers[i].name : i \in 1..Len(drivers)}

\* C24: the module records are records of module manifest files only, one per file at
\* most, and the driver records of driver manifest files only; a dependency on a name
\* that only a driver has is unknown to resolve_dependencies as it would be without
\* the driver; no DEPENDENCY issue has a driver that is no module as its source.
C24_DriversApart ==
    /\ Len(modules) <= Len(files)
    /\ \A i \in 1..Len(modules) : \E p \in 1..Len(files) : modules[i] = ModuleInfo(files[p])
    /\ Len(drivers) <= Len(driver_files)
    /\ \A i \in 1..Len(drivers) :
          \E p \in 1..Len(driver_files) : drivers[i] = DriverData(driver_files[p], p)
    /\ \A i \in 1..Len(modules) : \A dep \in Range(modules[i].dependencies) :
          (dep \in DriverNames /\ dep \notin ParsedNames) =>
              <<modules[i].name, dep>> \in UnknownDependencies(modules)
    /\ \A i \in 1..Len(issues) :
          issues[i].category = "DEPENDENCY" => issues[i].source_module \in ParsedNames

\* parse_manifests has returned with a module that depends on B and a driver named B,
\* and no module is named B
C24_Witness ==
    /\ ParseReturned
    /\ Len(modules) = 1
    /\ modules[1].name = NameA
    /\ modules[1].dependencies = <<NameB>>
    /\ Len(drivers) = 1
    /\ drivers[1].name = NameB
    /\ UnknownDependencies(modules) = {<<NameA, NameB>>}


\* the field of the manifest's module object if it is there, otherwise the default
FieldOr(file, field, default) ==
    IF field \in DOMAIN file.module THEN file.module[field] ELSE default

\* C25: when parse_manifests has returned, the record of every well-formed module
\* manifest holds the manifest's type, priority, version and dependencies where the
\* manifest gives them, and STANDARD, NORMAL, 0.0.0 and the empty list where it does not.
C25_DocumentedDefaults ==
    ParseReturned =>
        LET good_modules == WellFormedPaths(manifest_files.modules, files)
        IN \A i \in 1..Len(good_modules) :
              LET file == files[good_modules[i]]
              IN /\ i <= Len(modules)
                 /\ modules[i].name = file.module.name
                 /\ modules[i].type = FieldOr(file, "type", "STANDARD")
                 /\ modules[i].priority = FieldOr(file, "priority", "NORMAL")
                 /\ modules[i].version = FieldOr(file, "version", "0.0.0")
                 /\ modules[i].dependencies = FieldOr(file, "dependencies", <<>>)

\* parse_manifests has returned the records of a manifest that gives type, version
\* and priority and no dependencies, and of one that gives dependencies only
C25_Witness ==
    /\ pc = "parsed"
    /\ Len(modules) = 2
    /\ \E i, j \in 1..2 :
          /\ DOMAIN files[i].module = {"name", "type", "version", "priority"}
          /\ DOMAIN files[j].module = {"name", "dependencies"}
          /\ Len(files[j].module.dependencies) > 0
    /\ \E i \in 1..2 :
          /\ modules[i].type = "MANAGER"
          /\ modules[i].version = "1.2.3"
          /\ modules[i].priority = "HIGH"
          /\ modules[i].dependencies = <<>>
    /\ \E i \in 1..2 :
          /\ modules[i].type = "STANDARD"
          /\ modules[i].version = "0.0.0"
          /\ modules[i].priority = "NORMAL"
          /\ modules[i].dependencies # <<>>


\* the components the parsed manager modules and drivers declare, each with the name
\* of the module or driver that declares it as its source
DeclaredComponents ==
    UNION {{Tag(c, modules[i].name) : c \in Range(AdaptiveComponents(modules[i].ui))} :
             i \in {k \in 1..Len(modules) : modules[k].type = "MANAGER"}}
    \cup UNION {{Tag(c, drivers[i].name) : c \in Range(drivers[i].ui_extensions.components)} :
                  i \in 1..Len(drivers)}

\* C26: when generate_code has ended after writing the artifacts that precede the UI
\* component registry, the registry has been written and its entries are exactly the
\* adaptive components of the MANAGER modules and the extension components of the
\* drivers, each with the name of its module or driver as source.
C26_ComponentRegistry ==
    (pc \in {"generated", "crashed"} /\ runs = 1 /\ out.readme # NoFile) =>
        /\ out.ui_components # NoFile
        /\ Range(out.ui_components.components) = DeclaredComponents


\* C27: when generate_code has ended, every module record, its ui included, is the
\* record parse_module_manifest made of its manifest file, and every driver record
\* the one parse_driver_manifest made.
C27_EmittersReadOnly ==
    pc \in {"generated", "crashed"} =>
        LET good_modules == WellFormedPaths(manifest_files.modules, files)
            good_drivers == WellFormedPaths(manifest_files.drivers, driver_files)
        IN /\ Len(modules) = Len(good_modules)
           /\ \A i \in 1..Len(good_modules) :
                 /\ modules[i] = ModuleInfo(files[good_modules[i]])
                 /\ modules[i].ui = Get(files[good_modules[i]], "ui", <<>>)
           /\ Len(drivers) = Len(good_drivers)
           /\ \A i \in 1..Len(good_drivers) :
                 drivers[i] = DriverData(driver_files[good_drivers[i]], good_drivers[i])


\* C28: when parse_manifests has returned, every entry of all_events is an event that
\* a manifest parsed into a module record publishes, with one publisher per such
\* manifest, and every module record comes from such a manifest; every event constant
\* a run emits is an event of such a manifest.
C28_SkippedFileLeavesNothing ==
    ParseReturned =>
        /\ Len(modules) = Cardinality(ParsedFiles)
        /\ \A i \in 1..Len(all_events) :
              LET pubs == Declares("event_bus", "publishes", all_events[i].k)
              IN /\ pubs # {}
                 /\ Len(all_events[i].v) = Cardinality(pubs)
        /\ Emitted =>
              \A i \in 1..Len(out.system_contract.events) :
                 Declares("event_bus", "publishes", out.system_contract.events[i].value) # {}


\* C29: the step that VALIDATE takes from the parsed modules, whatever their number,
\* ends with the verdict, pass or fail, and with the report written by this step; it
\* never ends the run by an exception.
C29_ValidateCompletes ==
    [][ pc = "parsed" =>
          /\ pc' \in {"validated", "exited"}
          /\ report' = GenerateValidationReport([NewValidator EXCEPT !.issues = issues'])
          /\ pc' = "exited" <=> HasErrors(issues')
      ]_vars


\* the dicts validate_manifest_consistency makes of the module records for the validator
ModuleDicts == [i \in 1..Len(modules) |-> ModuleToDict(modules[i])]

\* C30: for the modules a run has parsed, every dependency that resolve_dependencies
\* reports as unknown is one for which validate_dependencies, given the dicts made of
\* these modules, raises a DEPENDENCY ERROR; resolve_dependencies has run only over
\* modules for which it finds nothing unknown; and when a run has ended, every such
\* dependency has its DEPENDENCY ERROR in the run's issue list, the run having
\* stopped at validation.
C30_DependencyChecksAgree ==
    /\ ParseReturned =>
          \A u \in UnknownDependencies(modules) :
              DependencyIssueFor(ValidateDependencies(NewValidator, ModuleDicts).issues,
                                 u[1], u[2])
    /\ pc \in {"resolved", "done"} => UnknownDependencies(modules) = {}
    /\ (RunEnded /\ pc # "init_failed") =>
          \A u \in UnknownDependencies(modules) :
              /\ \E k \in IssuesWith(issues, "ERROR", "DEPENDENCY", u[2]) :
                    issues[k].source_module = u[1]
              /\ pc = "exited"

=============================================================================
